---- MODULE Spec2Model ----
(***************************************************************************)
(* A model of runzip: the ZIP run of main.rs (open, entry loop, smart-mode *)
(* reconciliation, summary), the RAR extraction function unrar of rar.rs,  *)
(* and the directory reconciler process_directory of utils.rs.             *)
(*                                                                         *)
(* Strings are sequences of code points, raw names are sequences of bytes, *)
(* a path is a sequence of components (each a string), and the filesystem  *)
(* is a function from normalised absolute paths to "dir" or "file".        *)
(* File contents and permission bits are not part of the state; I/O faults *)
(* of the environment (disk full, permission denied) are not modelled:     *)
(* every failure below is decided by the inputs and the filesystem state.  *)
(* The --out option is absent (args.out = None) and the working directory  *)
(* is the directory that holds the archive.                                *)
(***************************************************************************)
EXTENDS Integers, Sequences, FiniteSets, TLC

\* Longest archive (number of entries) the inputs range over.
MaxEntries == 2

----------------------------------------------------------------------------
\* Strings and paths

\* "." and ".." as code points
Dot == <<46>>
DotDot == <<46, 46>>

\* Component names used by the inputs: "w" (the directory holding the
\* archive, also the working directory) and "t" (the fresh uuid of smart mode).
W == <<119>>
T == <<116>>

Front(s) == SubSeq(s, 1, Len(s) - 1)
Last(s) == s[Len(s)]

IsPrefix(p, q) == Len(p) <= Len(q) /\ SubSeq(q, 1, Len(p)) = p

\* str::ends_with('/')
EndsWithSlash(s) == Len(s) > 0 /\ Last(s) = 47

\* The components of a path string: split on '/', empty components dropped
\* (std::path::Components), "." dropped as it names the directory itself.
RECURSIVE SplitFrom(_, _, _)
SplitFrom(s, k, cur) ==
    IF k > Len(s)
    THEN IF cur = <<>> \/ cur = Dot THEN <<>> ELSE <<cur>>
    ELSE IF s[k] = 47
         THEN (IF cur = <<>> \/ cur = Dot THEN <<>> ELSE <<cur>>)
              \o SplitFrom(s, k + 1, <<>>)
         ELSE SplitFrom(s, k + 1, Append(cur, s[k]))

Components(s) == SplitFrom(s, 1, <<>>)

IsAbsolute(s) == Len(s) > 0 /\ s[1] = 47

\* Path::join: an absolute argument replaces the base.
Join(base, s) == IF IsAbsolute(s) THEN Components(s) ELSE base \o Components(s)

\* Path::file_stem of a file name: the part before the last '.'.
RECURSIVE LastDot(_, _)
LastDot(name, k) == IF k <= 1 THEN 0 ELSE IF name[k] = 46 THEN k ELSE LastDot(name, k - 1)

FileStem(name) ==
    LET d == LastDot(name, Len(name)) IN IF d = 0 THEN name ELSE SubSeq(name, 1, d - 1)

----------------------------------------------------------------------------
\* Filename decoding (encoding_rs::Encoding::decode)

\* windows-1252, bytes 0x80..0x9F
W1252High ==
    << 8364, 129, 8218, 402, 8222, 8230, 8224, 8225, 710, 8240, 352, 8249, 338,
       141, 381, 143, 144, 8216, 8217, 8220, 8221, 8226, 8211, 8212, 732, 8482,
       353, 8250, 339, 157, 382, 376 >>

\* windows-1252 maps every byte; it never reports an error.
DecodeW1252(raw) ==
    [str |-> [k \in 1..Len(raw) |->
                IF raw[k] >= 128 /\ raw[k] <= 159 THEN W1252High[raw[k] - 127] ELSE raw[k]],
     errors |-> FALSE]

IsCont(raw, k) == k <= Len(raw) /\ raw[k] >= 128 /\ raw[k] <= 191

\* UTF-8 for one-, two- and three-byte sequences (lead bytes E0, ED and the
\* four-byte leads are treated as malformed: no input uses them); a malformed
\* byte becomes U+FFFD and sets the error flag.
RECURSIVE DecodeUtf8From(_, _)
DecodeUtf8From(raw, k) ==
    IF k > Len(raw) THEN [str |-> <<>>, errors |-> FALSE]
    ELSE LET b == raw[k] IN
         IF b < 128
         THEN LET r == DecodeUtf8From(raw, k + 1) IN
              [str |-> <<b>> \o r.str, errors |-> r.errors]
         ELSE IF b >= 194 /\ b <= 223 /\ IsCont(raw, k + 1)
         THEN LET r == DecodeUtf8From(raw, k + 2) IN
              [str |-> <<(b - 192) * 64 + (raw[k + 1] - 128)>> \o r.str,
               errors |-> r.errors]
         ELSE IF ((b >= 225 /\ b <= 236) \/ b = 238 \/ b = 239)
                 /\ IsCont(raw, k + 1) /\ IsCont(raw, k + 2)
         THEN LET r == DecodeUtf8From(raw, k + 3) IN
              [str |-> <<(b - 224) * 4096 + (raw[k + 1] - 128) * 64 + (raw[k + 2] - 128)>>
                       \o r.str,
               errors |-> r.errors]
         ELSE LET r == DecodeUtf8From(raw, k + 1) IN
              [str |-> <<65533>> \o r.str, errors |-> TRUE]

DecodeUtf8(raw) == DecodeUtf8From(raw, 1)

\* encoding.decode(file.name_raw()): UTF_8 unless --encoding names another
\* encoding; "x" is windows-1252.
Decode(encoding, raw) == IF encoding = "x" THEN DecodeW1252(raw) ELSE DecodeUtf8(raw)

\* The name the archive library reports (ZipFile::name, unrar's filename):
\* a lossy decoding in which malformed bytes become replacement characters.
LibName(raw) == DecodeUtf8(raw).str

----------------------------------------------------------------------------
\* Filesystem

Parent(p) == IF p = <<>> THEN <<>> ELSE Front(p)

Under(f, d) == {p \in DOMAIN f : IsPrefix(d, p)}

\* fs::read_dir entries
Children(f, d) == {p \in DOMAIN f : Len(p) = Len(d) + 1 /\ IsPrefix(d, p)}

Restrict(f, S) == [p \in S |-> f[p]]

\* Path resolution: every component but the last must lead through a directory.
RECURSIVE Lookup(_, _, _)
Lookup(f, cur, comps) ==
    IF comps = <<>> THEN [ok |-> TRUE, at |-> cur]
    ELSE IF f[cur] # "dir" THEN [ok |-> FALSE, at |-> cur]
    ELSE LET c == Head(comps) IN
         IF c = DotDot THEN Lookup(f, Parent(cur), Tail(comps))
         ELSE IF Append(cur, c) \in DOMAIN f
              THEN Lookup(f, Append(cur, c), Tail(comps))
              ELSE [ok |-> FALSE, at |-> cur]

\* Path::exists / fs::exists
Exists(f, comps) == Lookup(f, <<>>, comps).ok

\* fs::create_dir_all: missing directories are created front to back; a
\* regular file on the way is an error and what was created stays.
RECURSIVE MkdirAllFrom(_, _, _)
MkdirAllFrom(f, cur, comps) ==
    IF comps = <<>> THEN [ok |-> TRUE, fs |-> f, at |-> cur]
    ELSE LET c == Head(comps) IN
         IF c = DotDot THEN MkdirAllFrom(f, Parent(cur), Tail(comps))
         ELSE LET nxt == Append(cur, c) IN
              IF nxt \notin DOMAIN f
              THEN MkdirAllFrom((nxt :> "dir") @@ f, nxt, Tail(comps))
              ELSE IF f[nxt] = "dir" THEN MkdirAllFrom(f, nxt, Tail(comps))
              ELSE [ok |-> FALSE, fs |-> f, at |-> cur]

CreateDirAll(f, comps) == MkdirAllFrom(f, <<>>, comps)

\* fs::File::create: the parent must resolve to a directory, the target must
\* not be a directory; an existing regular file is replaced.
FileCreate(f, comps) ==
    IF comps = <<>> \/ Last(comps) = DotDot THEN [ok |-> FALSE, fs |-> f, at |-> <<>>]
    ELSE LET par == Lookup(f, <<>>, Front(comps)) IN
         IF ~par.ok \/ f[par.at] # "dir" THEN [ok |-> FALSE, fs |-> f, at |-> <<>>]
         ELSE LET target == Append(par.at, Last(comps)) IN
              IF target \in DOMAIN f /\ f[target] = "dir"
              THEN [ok |-> FALSE, fs |-> f, at |-> target]
              ELSE [ok |-> TRUE, fs |-> (target :> "file") @@ f, at |-> target]

\* fs::remove_dir_all: removes a directory and everything under it; a path
\* that is not a directory is an error.
RemoveDirAll(f, p) ==
    IF p \in DOMAIN f /\ f[p] = "dir"
    THEN [ok |-> TRUE, fs |-> Restrict(f, DOMAIN f \ Under(f, p))]
    ELSE [ok |-> FALSE, fs |-> f]

\* The tree at src re-rooted at dst.
MoveTree(f, src, dst) ==
    LET moved == Under(f, src)
        rest == DOMAIN f \ moved
        to(p) == dst \o SubSeq(p, Len(src) + 1, Len(p))
    IN [q \in rest \cup {to(p) : p \in moved} |->
          IF \E p \in moved : to(p) = q
          THEN f[CHOOSE p \in moved : to(p) = q]
          ELSE f[q]]

\* fs::rename (rename(2)): a directory replaces an empty directory only, a
\* regular file replaces a regular file only.
Rename(f, src, dst) ==
    IF src \notin DOMAIN f THEN [ok |-> FALSE, fs |-> f]
    ELSE IF dst \notin DOMAIN f THEN [ok |-> TRUE, fs |-> MoveTree(f, src, dst)]
    ELSE IF f[src] = "dir"
         THEN IF f[dst] = "dir" /\ Children(f, dst) = {}
              THEN [ok |-> TRUE, fs |-> MoveTree(Restrict(f, DOMAIN f \ {dst}), src, dst)]
              ELSE [ok |-> FALSE, fs |-> f]
         ELSE IF f[dst] = "file"
              THEN [ok |-> TRUE, fs |-> MoveTree(Restrict(f, DOMAIN f \ {dst}), src, dst)]
              ELSE [ok |-> FALSE, fs |-> f]

\* fs::remove_dir: the directory must be empty.
RemoveDir(f, p) ==
    IF p \in DOMAIN f /\ f[p] = "dir" /\ Children(f, p) = {}
    THEN [ok |-> TRUE, fs |-> Restrict(f, DOMAIN f \ {p})]
    ELSE [ok |-> FALSE, fs |-> f]

----------------------------------------------------------------------------
\* Directory reconciler (utils.rs; main.rs carries the same two functions)

\* The loop that clears contains_only_dirs at the first non-directory child.
ContainsOnlyDirs(f, path) == \A c \in Children(f, path) : f[c] = "dir"

\* The for loop of move_dir_contents_to_parent over the entries of read_dir,
\* in the order read_dir yields them.
RECURSIVE MoveLoop(_, _, _, _)
MoveLoop(f, order, parent_dir, force) ==
    IF order = <<>> THEN [ok |-> TRUE, fs |-> f]
    ELSE LET path == Head(order)
             new_path == Append(parent_dir, Last(path))
             rm == IF force /\ new_path \in DOMAIN f
                   THEN RemoveDirAll(f, new_path)
                   ELSE [ok |-> TRUE, fs |-> f]
         IN IF ~rm.ok THEN [ok |-> FALSE, fs |-> rm.fs]
            ELSE LET mv == Rename(rm.fs, path, new_path) IN
                 IF ~mv.ok THEN [ok |-> FALSE, fs |-> mv.fs]
                 ELSE MoveLoop(mv.fs, Tail(order), parent_dir, force)

\* A wrapper reconciler that leaves the emptied root behind and keeps
\* reporting it.
MoveDirContentsKeepRoot(f, dir, force, order) ==
    LET lp == MoveLoop(f, order, Parent(dir), force) IN
    [ok |-> lp.ok, fs |-> lp.fs, path |-> dir]

MoveDirContentsToParent(f, dir, force, order) ==
    LET parent_dir == Parent(dir)
        lp == MoveLoop(f, order, parent_dir, force)
    IN IF ~lp.ok THEN [ok |-> FALSE, fs |-> lp.fs, path |-> dir]
       ELSE LET rd == RemoveDir(lp.fs, dir) IN
            IF ~rd.ok THEN [ok |-> FALSE, fs |-> rd.fs, path |-> dir]
            ELSE [ok |-> TRUE, fs |-> rd.fs, path |-> parent_dir]

\* A rename branch that moves the root's children into the parent instead
\* of renaming the root.
RenameRootSpill(f, path, zip_name, force) ==
    LET cs == Children(f, path)
        order == CHOOSE s \in [1..Cardinality(cs) -> cs] :
                    \A a, b \in 1..Cardinality(cs) : a # b => s[a] # s[b]
    IN MoveDirContentsToParent(f, path, force, order)

\* The else branch of process_directory: rename the root to the archive's stem.
RenameRoot(f, path, zip_name, force) ==
    LET new_path == Append(Parent(path), zip_name)
        rm == IF force /\ new_path \in DOMAIN f
              THEN RemoveDirAll(f, new_path)
              ELSE [ok |-> TRUE, fs |-> f]
    IN IF ~rm.ok THEN [ok |-> FALSE, fs |-> rm.fs, path |-> path]
       ELSE LET mv == Rename(rm.fs, path, new_path) IN
            IF ~mv.ok THEN [ok |-> FALSE, fs |-> mv.fs, path |-> path]
            ELSE [ok |-> TRUE, fs |-> mv.fs, path |-> new_path]

ProcessDirectory(f, path, zip_name, force, order) ==
    IF path \notin DOMAIN f \/ f[path] # "dir"
    THEN [ok |-> FALSE, fs |-> f, path |-> path]
    ELSE IF ContainsOnlyDirs(f, path)
         THEN MoveDirContentsToParent(f, path, force, order)
         ELSE RenameRoot(f, path, zip_name, force)

\* The orders in which read_dir may yield the children of d.
ReadDirOrders(f, d) ==
    LET cs == Children(f, d) IN
    {s \in [1..Cardinality(cs) -> cs] :
        \A a, b \in 1..Cardinality(cs) : a # b => s[a] # s[b]}

----------------------------------------------------------------------------
\* Entries

\* ZipArchive::by_index / by_index_decrypt: a protected entry cannot be read
\* without a password (a ZipError), a wrong password is rejected, and the
\* password is ignored for an entry that is not protected.
OpenEntryUnchecked(e, password) ==
    IF password = "none" /\ e.prot THEN "Zip" ELSE "ok"

OpenEntry(e, password) ==
    IF password = "none" THEN (IF e.prot THEN "Zip" ELSE "ok")
    ELSE IF e.prot /\ password = "wrong" THEN "InvalidPassword"
    ELSE "ok"

\* An inflate that writes every entry as a regular file.
InflateAsFile(f, e, destination, encoding) ==
    LET d == Decode(encoding, e.raw) IN
    IF d.errors THEN [ok |-> FALSE, fs |-> f, at |-> <<>>]
    ELSE LET outpath == Join(destination, d.str)
             mk == IF outpath # <<>> /\ ~Exists(f, Front(outpath))
                   THEN CreateDirAll(f, Front(outpath))
                   ELSE [ok |-> TRUE, fs |-> f, at |-> <<>>]
         IN IF ~mk.ok THEN [ok |-> FALSE, fs |-> mk.fs, at |-> <<>>]
            ELSE FileCreate(mk.fs, outpath)

\* inflate: decode the raw name, join it to the destination, then create
\* the directory or the file.
Inflate(f, e, destination, encoding) ==
    LET d == Decode(encoding, e.raw) IN
    IF d.errors THEN [ok |-> FALSE, fs |-> f, at |-> <<>>]
    ELSE LET outpath == Join(destination, d.str) IN
         IF EndsWithSlash(LibName(e.raw))
         THEN CreateDirAll(f, outpath)
         ELSE LET mk == IF outpath # <<>> /\ ~Exists(f, Front(outpath))
                        THEN CreateDirAll(f, Front(outpath))
                        ELSE [ok |-> TRUE, fs |-> f, at |-> <<>>]
              IN IF ~mk.ok THEN [ok |-> FALSE, fs |-> mk.fs, at |-> <<>>]
                 ELSE FileCreate(mk.fs, outpath)

\* Entry names the archives are built from.
ZipEntries ==
    { [raw |-> <<97>>, prot |-> FALSE, dirflag |-> FALSE],              \* a
      [raw |-> <<97>>, prot |-> TRUE, dirflag |-> FALSE],               \* a, protected
      [raw |-> <<97, 47>>, prot |-> FALSE, dirflag |-> FALSE],          \* a/
      [raw |-> <<97, 47, 98>>, prot |-> FALSE, dirflag |-> FALSE],      \* a/b
      [raw |-> <<98, 47>>, prot |-> FALSE, dirflag |-> FALSE],          \* b/
      [raw |-> <<46, 46, 47, 98>>, prot |-> FALSE, dirflag |-> FALSE],  \* ../b
      [raw |-> <<47, 98>>, prot |-> FALSE, dirflag |-> FALSE],          \* /b
      [raw |-> <<233>>, prot |-> FALSE, dirflag |-> FALSE],             \* E9
      [raw |-> <<195, 169>>, prot |-> FALSE, dirflag |-> FALSE] }       \* C3 A9

\* RAR entries carry the directory flag in the header, not in the name.
RarEntries ==
    { [raw |-> <<97>>, prot |-> FALSE, dirflag |-> FALSE],              \* a
      [raw |-> <<97>>, prot |-> FALSE, dirflag |-> TRUE],               \* a (directory)
      [raw |-> <<97, 47, 98>>, prot |-> FALSE, dirflag |-> FALSE],      \* a/b
      [raw |-> <<46, 46, 47, 98>>, prot |-> FALSE, dirflag |-> FALSE],  \* ../b
      [raw |-> <<98>>, prot |-> TRUE, dirflag |-> FALSE] }              \* b, protected

SeqsUpTo(S, n) == UNION {[1..k -> S] : k \in 0..n}

\* "a.zip" and "a.rar"
ZipName == <<97, 46, 122, 105, 112>>
RarName == <<97, 46, 114, 97, 114>>

Archives ==
    [format : {"zip"}, status : {"ok"}, name : {ZipName},
     entries : SeqsUpTo(ZipEntries, MaxEntries)]
    \cup [format : {"zip"}, status : {"missing", "corrupt"}, name : {ZipName},
          entries : {<<>>}]
    \cup [format : {"rar"}, status : {"ok"}, name : {RarName},
          entries : SeqsUpTo(RarEntries, MaxEntries)]
    \cup [format : {"rar"}, status : {"corrupt"}, name : {RarName}, entries : {<<>>}]

\* What is on disk before the run: the working directory "w" with the
\* archive in it and, beside the archive, nothing, a regular file, an empty
\* directory or a directory with a file in it under the archive's stem.
BaseFs(a) == (<<>> :> "dir") @@ (<<W>> :> "dir")
             @@ (IF a.status = "missing" THEN <<>> :> "dir" ELSE <<W, a.name>> :> "file")

InitialFs(a) ==
    LET stem == FileStem(a.name) IN
    { BaseFs(a),
      (<<W, stem>> :> "file") @@ BaseFs(a),
      (<<W, stem>> :> "dir") @@ BaseFs(a),
      (<<W, stem>> :> "dir") @@ (<<W, stem, <<98>>>> :> "file") @@ BaseFs(a) }

----------------------------------------------------------------------------
\* Program state

VARIABLES
    args,         \* the command line: password, encoding, smart, force
    archive,      \* the archive: format, status, file name, entries
    fs,           \* the filesystem
    pc,           \* "start", "loop", "extracted", "reconciled", "done", "failed"
    i,            \* index of the entry the loop is at (0-based)
    destination,  \* main's destination / unrar's destination argument
    err,          \* the error the run ended with, "none" if none
    failedAt,     \* where the run failed: "open", "entry", "reconcile", "summary"
    written,      \* history: the entries materialised so far, idx and path
    file_count,   \* unrar's file_count
    returned,     \* the value unrar returned, -1 before it returns
    summary,      \* the count on the summary line, -1 if not printed
    calls,        \* history: number of calls of process_directory
    preFs,        \* history: the filesystem when process_directory was called
    recResult     \* history: "none", "ok" or "err", how process_directory ended

vars == <<args, archive, fs, pc, i, destination, err, failedAt, written,
          file_count, returned, summary, calls, preFs, recResult>>

N == Len(archive.entries)

ZipArgs == [password : {"none", "right", "wrong"}, encoding : {"none", "x", "bogus"},
            smart : BOOLEAN, force : BOOLEAN]

\* unrar takes the password only.
RarArgs == [password : {"none", "right", "wrong"}, encoding : {"none"},
            smart : {FALSE}, force : {FALSE}]

Init ==
    /\ archive \in Archives
    /\ args \in (IF archive.format = "zip" THEN ZipArgs ELSE RarArgs)
    /\ fs \in InitialFs(archive)
    /\ pc = "start"
    /\ i = 0
    /\ destination = <<>>
    /\ err = "none"
    /\ failedAt = "none"
    /\ written = <<>>
    /\ file_count = 0
    /\ returned = -1
    /\ summary = -1
    /\ calls = 0
    /\ preFs = [p \in {} |-> "dir"]
    /\ recResult = "none"

\* An abort that rolls the extraction back by deleting the destination.
AbortRollback(kind, where, f) ==
    /\ pc' = "failed"
    /\ err' = kind
    /\ failedAt' = where
    /\ fs' = IF destination = <<>> THEN f
             ELSE Restrict(f, DOMAIN f \ Under(f, destination))

\* return Err(..) / panic: the run ends with the filesystem as it is.
Abort(kind, where, f) ==
    /\ pc' = "failed"
    /\ err' = kind
    /\ failedAt' = where
    /\ fs' = f

----------------------------------------------------------------------------
\* The ZIP run (main)

\* main up to the entry loop: open the file, resolve the encoding label,
\* parse the archive, choose the destination.
Open ==
    /\ pc = "start"
    /\ archive.format = "zip"
    /\ IF archive.status = "missing"
       THEN Abort("Io", "open", fs) /\ UNCHANGED destination
       ELSE IF args.encoding = "bogus"
       THEN Abort("EncodingError", "open", fs) /\ UNCHANGED destination
       ELSE IF archive.status = "corrupt"
       THEN Abort("Zip", "open", fs) /\ UNCHANGED destination
       ELSE /\ destination' = IF args.smart THEN <<W, T>> ELSE <<W, FileStem(archive.name)>>
            /\ pc' = IF N = 0 THEN "extracted" ELSE "loop"
            /\ UNCHANGED <<err, failedAt, fs>>
    /\ UNCHANGED <<args, archive, i, written, file_count, returned, summary, calls,
                   preFs, recResult>>

\* One iteration of the entry loop.
ZipEntry ==
    /\ pc = "loop"
    /\ archive.format = "zip"
    /\ i < N
    /\ LET e == archive.entries[i + 1]
           o == OpenEntry(e, args.password)
       IN IF o # "ok"
          THEN Abort(o, "entry", fs) /\ UNCHANGED <<i, written>>
          ELSE LET r == Inflate(fs, e, destination, args.encoding) IN
               IF ~r.ok
               THEN Abort("Io", "entry", r.fs) /\ UNCHANGED <<i, written>>
               ELSE /\ fs' = r.fs
                    /\ written' = Append(written, [idx |-> i, path |-> r.at])
                    /\ i' = i + 1
                    /\ pc' = IF i + 1 = N THEN "extracted" ELSE "loop"
                    /\ UNCHANGED <<err, failedAt>>
    /\ UNCHANGED <<args, archive, destination, file_count, returned, summary, calls,
                   preFs, recResult>>

\* A reconciliation step that runs whether or not smart mode was asked for.
ReconcileAlways == pc = "extracted" /\ archive.format = "zip"

\* if args.smart, after the loop
ReconcileGuard == pc = "extracted" /\ archive.format = "zip" /\ args.smart

\* process_directory(..).expect(..)
Reconcile ==
    /\ ReconcileGuard
    /\ \E order \in ReadDirOrders(fs, destination) :
         LET r == ProcessDirectory(fs, destination, FileStem(archive.name),
                                   args.force, order)
         IN /\ calls' = calls + 1
            /\ preFs' = fs
            /\ IF r.ok
               THEN /\ fs' = r.fs
                    /\ destination' = r.path
                    /\ recResult' = "ok"
                    /\ pc' = "reconciled"
                    /\ UNCHANGED <<err, failedAt>>
               ELSE /\ Abort("Panic", "reconcile", r.fs)
                    /\ recResult' = "err"
                    /\ UNCHANGED destination
    /\ UNCHANGED <<args, archive, i, written, file_count, returned, summary>>

\* The summary line; fs::canonicalize(destination).unwrap() needs the path
\* to exist.
Summary ==
    /\ archive.format = "zip"
    /\ pc = "reconciled" \/ (pc = "extracted" /\ ~args.smart)
    /\ IF Exists(fs, destination)
       THEN /\ summary' = N
            /\ pc' = "done"
            /\ UNCHANGED <<err, failedAt, fs>>
       ELSE Abort("Panic", "summary", fs) /\ UNCHANGED summary
    /\ UNCHANGED <<args, archive, i, destination, written, file_count, returned, calls,
                   preFs, recResult>>

----------------------------------------------------------------------------
\* unrar (rar.rs)

\* open_for_processing()?
OpenRar ==
    /\ pc = "start"
    /\ archive.format = "rar"
    /\ IF archive.status # "ok"
       THEN Abort("Unrar", "open", fs) /\ UNCHANGED <<destination, returned>>
       ELSE /\ destination' = <<W, FileStem(archive.name)>>
            /\ pc' = IF N = 0 THEN "extracted" ELSE "loop"
            /\ returned' = IF N = 0 THEN file_count ELSE returned
            /\ UNCHANGED <<err, failedAt, fs>>
    /\ UNCHANGED <<args, archive, i, written, file_count, summary, calls, preFs,
                   recResult>>

\* header.read()?: the data of a protected entry needs the right password.
RarRead(e, password) == IF e.prot /\ password # "right" THEN "Unrar" ELSE "ok"

\* One iteration of the while loop: a file entry is read and written, any
\* other entry is skipped; Ok(file_count) once read_header yields None.
RarEntry ==
    /\ pc = "loop"
    /\ archive.format = "rar"
    /\ i < N
    /\ LET e == archive.entries[i + 1]
           outpath == Join(destination, LibName(e.raw))
           last == i + 1 = N
       IN IF e.dirflag
          THEN /\ i' = i + 1
               /\ pc' = IF last THEN "extracted" ELSE "loop"
               /\ returned' = IF last THEN file_count ELSE returned
               /\ UNCHANGED <<fs, err, failedAt, written, file_count>>
          ELSE IF RarRead(e, args.password) # "ok"
          THEN /\ Abort("Unrar", "entry", fs)
               /\ UNCHANGED <<i, written, file_count, returned>>
          ELSE LET mk == CreateDirAll(fs, Front(outpath)) IN
               IF ~mk.ok
               THEN /\ Abort("Panic", "entry", mk.fs)
                    /\ UNCHANGED <<i, written, file_count, returned>>
               ELSE LET r == FileCreate(mk.fs, outpath) IN
                    IF ~r.ok
                    THEN /\ Abort("Panic", "entry", r.fs)
                         /\ UNCHANGED <<i, written, file_count, returned>>
                    ELSE /\ fs' = r.fs
                         /\ written' = Append(written, [idx |-> i, path |-> r.at])
                         /\ file_count' = file_count + 1
                         /\ i' = i + 1
                         /\ pc' = IF last THEN "extracted" ELSE "loop"
                         /\ returned' = IF last THEN file_count + 1 ELSE returned
                         /\ UNCHANGED <<err, failedAt>>
    /\ UNCHANGED <<args, archive, destination, summary, calls, preFs, recResult>>

----------------------------------------------------------------------------

Next == Open \/ ZipEntry \/ Reconcile \/ Summary \/ OpenRar \/ RarEntry

Spec == Init /\ [][Next]_vars

----------------------------------------------------------------------------
\* Properties

\* The destination the entries are extracted to (fixed by the command line).
ExtractionRoot ==
    IF archive.format = "zip" /\ args.smart THEN <<W, T>> ELSE <<W, FileStem(archive.name)>>

StemPath == <<W, FileStem(archive.name)>>

\* The directory flag of an entry: the trailing separator of a ZIP raw name,
\* the header flag of a RAR entry.
IsDirEntry(e) == IF archive.format = "rar" THEN e.dirflag ELSE EndsWithSlash(e.raw)

\* p, a path under from, re-rooted at to.
Reroot(p, from, to) == to \o SubSeq(p, Len(from) + 1, Len(p))

WrittenIdx == {written[j].idx : j \in 1..Len(written)}

\* C1: every entry is materialised inside the destination root; a name with
\* ".." segments or an absolute name never creates anything outside it.
C1_Contained ==
    \A j \in 1..Len(written) : IsPrefix(ExtractionRoot, written[j].path)

\* C2: an archive of N entries extracted without error yields the count N
\* (returned by unrar, printed by main) and, before reconciliation, an object
\* on disk for each of the N entries (where the object lies is C1's matter).
C2_CountAndObjects ==
    /\ pc = "extracted" =>
         \A k \in 0..(N - 1) :
            \E j \in 1..Len(written) :
               /\ written[j].idx = k
               /\ written[j].path \in DOMAIN fs
    /\ returned # -1 => returned = N
    /\ summary # -1 => summary = N

\* C3: before reconciliation, every materialised entry flagged as a directory
\* is a directory at its output path and every other materialised entry is a
\* regular file there, whatever the encoding and the format.
C3_KindMatchesFlag ==
    calls = 0 =>
      \A j \in 1..Len(written) :
         /\ written[j].path \in DOMAIN fs
         /\ fs[written[j].path] =
              IF IsDirEntry(archive.entries[written[j].idx + 1]) THEN "dir" ELSE "file"

C3_Witness ==
    /\ archive.format = "zip"
    /\ args.encoding = "x"
    /\ pc = "extracted"
    /\ Len(written) = 2
    /\ IsDirEntry(archive.entries[1])
    /\ ~IsDirEntry(archive.entries[2])

\* C4: the first error ends the run: the step that fails reads and writes no
\* further entry and prints no summary, what was on disk stays (an object the
\* reconciler had already moved up stays where it was moved to), and nothing
\* happens after the failure.
C4_Step ==
    /\ pc = "failed" => UNCHANGED vars
    /\ (pc # "failed" /\ pc' = "failed") =>
         /\ i' = i
         /\ written' = written
         /\ summary' = -1
         /\ failedAt' # "reconcile" =>
              \A p \in DOMAIN fs : p \in DOMAIN fs' /\ fs'[p] = fs[p]
         /\ failedAt' = "reconcile" =>
              \A p \in Under(fs, destination) :
                 \/ p \in DOMAIN fs' /\ fs'[p] = fs[p]
                 \/ LET q == Reroot(p, destination, Parent(destination)) IN
                    q \in DOMAIN fs' /\ fs'[q] = fs[p]

C4_FailFast == [][C4_Step]_vars

C4_Witness ==
    /\ pc = "failed"
    /\ failedAt = "entry"
    /\ err = "Io"
    /\ Len(written) = 1
    /\ i = 1
    /\ N = 2

\* The first protected entry of the archive (0-based).
FirstProtected ==
    CHOOSE k \in 0..(N - 1) :
       archive.entries[k + 1].prot /\ \A j \in 0..(k - 1) : ~archive.entries[j + 1].prot

\* C5: with a wrong password, the ZIP loop stops at the first protected entry
\* with Error::InvalidPassword: that entry and the later ones are not
\* written and no summary is printed.
C5_WrongPasswordHalts ==
    (/\ archive.format = "zip"
     /\ args.password = "wrong"
     /\ \E k \in 1..N : archive.entries[k].prot)
    => /\ i <= FirstProtected
       /\ \A k \in WrittenIdx : k < FirstProtected
       /\ summary = -1
       /\ pc \notin {"extracted", "reconciled", "done"}
       /\ (pc = "failed" /\ failedAt = "entry" /\ i = FirstProtected)
            => err = "InvalidPassword"

C5_Witness ==
    /\ archive.format = "zip"
    /\ args.password = "wrong"
    /\ pc = "failed"
    /\ err = "InvalidPassword"
    /\ i = 0
    /\ N = 2
    /\ written = <<>>

\* C6: a ZIP raw name that windows-1252 decodes and UTF-8 does not is
\* extracted under its decoded name when that encoding is selected; without
\* an encoding the run ends with the EncodingError kind and the entry is not
\* written.
C6_EncodingError ==
    archive.format = "zip" =>
      \A k \in 0..(N - 1) :
         LET raw == archive.entries[k + 1].raw IN
         (DecodeUtf8(raw).errors /\ ~DecodeW1252(raw).errors) =>
            /\ args.encoding = "x" =>
                 \A j \in 1..Len(written) :
                    written[j].idx = k =>
                       written[j].path = Join(ExtractionRoot, DecodeW1252(raw).str)
            /\ args.encoding = "none" =>
                 /\ k \notin WrittenIdx
                 /\ (pc = "failed" /\ failedAt = "entry" /\ i = k
                     /\ OpenEntry(archive.entries[k + 1], args.password) = "ok")
                      => err = "EncodingError"

\* The state in which process_directory was called on an existing root.
Reconciled == calls = 1 /\ <<W, T>> \in DOMAIN preFs /\ preFs[<<W, T>>] = "dir"

\* C7: wrapper case without collision: every child of the root is, with its
\* contents, a child of the root's parent, the root is gone and the reported
\* destination is the parent.
C7_WrapperMovedUp ==
    (/\ Reconciled
     /\ ContainsOnlyDirs(preFs, <<W, T>>)
     /\ \A c \in Children(preFs, <<W, T>>) : <<W, Last(c)>> \notin DOMAIN preFs)
    => /\ recResult = "ok"
       /\ <<W, T>> \notin DOMAIN fs
       /\ destination = <<W>>
       /\ \A c \in Children(preFs, <<W, T>>) :
            /\ Under(fs, <<W, Last(c)>>)
                 = {Reroot(p, <<W, T>>, <<W>>) : p \in Under(preFs, c)}
            /\ \A p \in Under(preFs, c) :
                 fs[Reroot(p, <<W, T>>, <<W>>)] = preFs[p]

C7_Witness ==
    /\ Reconciled
    /\ recResult = "ok"
    /\ ContainsOnlyDirs(preFs, <<W, T>>)
    /\ Cardinality(Children(preFs, <<W, T>>)) = 2
    /\ \E p \in Under(preFs, <<W, T>>) : preFs[p] = "file"
    /\ \A c \in Children(preFs, <<W, T>>) : <<W, Last(c)>> \notin DOMAIN preFs

\* C8: mixed case with the stem's path free: the root is renamed to the
\* archive's stem with everything still under it, the temporary name is gone
\* and nothing else in the parent changed.
C8_MixedRenamed ==
    (/\ Reconciled
     /\ ~ContainsOnlyDirs(preFs, <<W, T>>)
     /\ StemPath \notin DOMAIN preFs)
    => /\ recResult = "ok"
       /\ destination = StemPath
       /\ <<W, T>> \notin DOMAIN fs
       /\ Under(fs, StemPath) = {Reroot(p, <<W, T>>, StemPath) : p \in Under(preFs, <<W, T>>)}
       /\ \A p \in Under(preFs, <<W, T>>) : fs[Reroot(p, <<W, T>>, StemPath)] = preFs[p]
       /\ Children(fs, <<W>>) = (Children(preFs, <<W>>) \ {<<W, T>>}) \cup {StemPath}
       /\ \A p \in DOMAIN preFs \ Under(preFs, <<W, T>>) : p \in DOMAIN fs /\ fs[p] = preFs[p]

C8_Witness ==
    /\ Reconciled
    /\ recResult = "ok"
    /\ ~ContainsOnlyDirs(preFs, <<W, T>>)
    /\ \E c \in Children(preFs, <<W, T>>) : preFs[c] = "dir"
    /\ StemPath \notin DOMAIN preFs
    /\ destination = StemPath

\* The paths the reconciler needs to occupy.
ReconcileTargets ==
    IF ContainsOnlyDirs(preFs, <<W, T>>)
    THEN {<<W, Last(c)>> : c \in Children(preFs, <<W, T>>)}
    ELSE {StemPath}

\* C9: when a path the reconciler needs exists already (file, empty or
\* non-empty directory): with force it is removed and the reconciler
\* succeeds; without force the reconciler fails and the path is untouched.
C9_ForceCollision ==
    (Reconciled /\ ReconcileTargets \cap DOMAIN preFs # {})
    => IF args.force
       THEN recResult = "ok" /\ \A t \in ReconcileTargets : t \in DOMAIN fs
       ELSE /\ recResult = "err"
            /\ \A t \in ReconcileTargets \cap DOMAIN preFs :
                 \A p \in Under(preFs, t) : p \in DOMAIN fs /\ fs[p] = preFs[p]

\* C10: process_directory is called at most once, only in smart mode and only
\* when every entry has been materialised, in archive order, without error;
\* in smart mode the summary is printed only after it returned successfully.
C10_ReconcileOnce ==
    /\ calls <= 1
    /\ calls = 1 =>
         /\ args.smart
         /\ Len(written) = N
         /\ \A k \in 1..N : written[k].idx = k - 1
         /\ failedAt \in {"none", "reconcile", "summary"}
    /\ (summary # -1 /\ args.smart) => (calls = 1 /\ recResult = "ok")
    /\ (summary # -1 /\ ~args.smart) => calls = 0

C10_Witness ==
    /\ args.smart
    /\ summary = 2
    /\ calls = 1
    /\ recResult = "ok"

====
